---- MODULE Spec2Model ----
(***************************************************************************)
(* Model of scripts/curate_complete_elements.py: curation of complete      *)
(* LTR-INT-LTR proviral elements from a RepeatMasker table.                *)
(*                                                                         *)
(* A DataFrame is a sequence of records (its rows in index order).  A      *)
(* chromosome name is a sequence of one-character strings, so that the     *)
(* regular expression and the string comparisons of the code are computed  *)
(* character by character.                                                 *)
(***************************************************************************)
EXTENDS Integers, Sequences, FiniteSets, TLC

VARIABLES
    te_bed,                       \* main: rows returned by load_ucsc_rmsk
    int_of_interest,              \* args.int
    ltr_of_interest,              \* args.ltr
    tolerance,                    \* args.tolerance
    int_elements,                 \* main: INT rows, sorted
    ltr_elements,                 \* main: LTR rows, sorted
    ltr_elements_dict,            \* main: the LTR columns every task receives
    futures,                      \* main: one future per INT row
    completed,                    \* indices of the futures as_completed has yielded, in order
    triplets,                     \* main: list of collected results
    ltr_elements_full_collapsed,  \* main: the collapsed table (line 175)
    output,                       \* rows written by to_csv
    outcome,                      \* how the run ended
    pc                            \* position of main

vars == <<te_bed, int_of_interest, ltr_of_interest, tolerance, int_elements,
          ltr_elements, ltr_elements_dict, futures, completed, triplets,
          ltr_elements_full_collapsed, output, outcome, pc>>

---------------------------------------------------------------------------
(* Bounds of the model *)

MaxCoord == 2        \* coordinates of the annotation rows are 0..MaxCoord
MaxTol == 1          \* tolerance is drawn from 0..MaxTol
MaxInt == 2          \* INT rows in a pipeline input
MaxLtr == 2          \* LTR rows in a pipeline input
MaxMatchLtr == 3     \* LTR rows in a matcher input
MaxTriplets == 2     \* triplets in a collapse input
MaxSortCoord == 1    \* coordinates of the collapse inputs are 0..MaxSortCoord

---------------------------------------------------------------------------
(* Strings *)

Str_chr1   == <<"c", "h", "r", "1">>
Str_chr2   == <<"c", "h", "r", "2">>
Str_chr10  == <<"c", "h", "r", "1", "0">>
Str_chrX   == <<"c", "h", "r", "X">>
Str_chrY   == <<"c", "h", "r", "Y">>
Str_chrM   == <<"c", "h", "r", "M">>
Str_chrMT  == <<"c", "h", "r", "M", "T">>
Str_chrUn  == <<"c", "h", "r", "U", "n">>
Str_chr2_r == <<"c", "h", "r", "2", "_", "r">>   \* an unlocalized contig of chromosome 2

Digits == {"0", "1", "2", "3", "4", "5", "6", "7", "8", "9"}

\* Code point of a character (Python compares str by code point).
Ord(c) ==
    CASE c = "+" -> 43 [] c = "-" -> 45
      [] c = "0" -> 48 [] c = "1" -> 49 [] c = "2" -> 50 [] c = "3" -> 51
      [] c = "4" -> 52 [] c = "5" -> 53 [] c = "6" -> 54 [] c = "7" -> 55
      [] c = "8" -> 56 [] c = "9" -> 57
      [] c = "M" -> 77 [] c = "T" -> 84 [] c = "U" -> 85 [] c = "X" -> 88
      [] c = "Y" -> 89 [] c = "_" -> 95 [] c = "c" -> 99 [] c = "h" -> 104
      [] c = "n" -> 110 [] c = "r" -> 114

\* a < b for two Python strings.
StrLess(a, b) ==
    \E i \in 1..(Len(a) + 1) :
        /\ \A j \in 1..(i - 1) : j <= Len(b) /\ a[j] = b[j]
        /\ \/ i = Len(a) + 1 /\ Len(b) >= i
           \/ i <= Len(a) /\ i <= Len(b) /\ Ord(a[i]) < Ord(b[i])

Abs(x) == IF x < 0 THEN -x ELSE x

---------------------------------------------------------------------------
(* DataFrame.sort_values: a stable sort.  before[i][j] tells whether the sort
   key of row i is smaller than that of row j. *)

SortValues(df, before) ==
    LET n == Len(df)
        rank == [i \in 1..n |-> Cardinality({j \in 1..n :
                        \/ before[j][i]
                        \/ j < i /\ ~before[i][j]}) + 1]
        ranks == SubSeq(rank, 1, n)
    IN  SubSeq([k \in 1..n |-> df[CHOOSE i \in 1..n : ranks[i] = k]], 1, n)

\* sort_values(["chr", "start"])
ByChrStart(a, b) ==
    \/ StrLess(a.chr, b.chr)
    \/ a.chr = b.chr /\ a.start < b.start

---------------------------------------------------------------------------
(* sort_chromosomes *)

\* re.match(r"chr(\d+)", c): the digits the group captures, <<>> when there is no match.
MatchChrDigits(c) ==
    IF Len(c) >= 4 /\ c[1] = "c" /\ c[2] = "h" /\ c[3] = "r" /\ c[4] \in Digits
    THEN LET last == CHOOSE e \in 4..Len(c) :
                        /\ \A j \in 4..e : c[j] \in Digits
                        /\ e = Len(c) \/ c[e + 1] \notin Digits
         IN  SubSeq(c, 4, last)
    ELSE <<>>

\* int(match.group(1))
RECURSIVE ParseInt(_)
ParseInt(ds) ==
    IF ds = <<>> THEN 0
    ELSE 10 * ParseInt(SubSeq(ds, 1, Len(ds) - 1)) + (Ord(ds[Len(ds)]) - 48)

chr_key(c) ==
    IF MatchChrDigits(c) # <<>> THEN <<0, ParseInt(MatchChrDigits(c))>>
    ELSE IF c = Str_chrX THEN <<1, 23>>
    ELSE IF c = Str_chrY THEN <<1, 24>>
    ELSE IF c = Str_chrM \/ c = Str_chrMT THEN <<2, 25>>
    ELSE <<3, c>>

\* Python's order on the tuples chr_key returns.
ChrKeyLess(k1, k2) ==
    \/ k1[1] < k2[1]
    \/ /\ k1[1] = k2[1]
       /\ IF k1[1] = 3 THEN StrLess(k1[2], k2[2]) ELSE k1[2] < k2[2]

ChrKeyEq(k1, k2) == ~ChrKeyLess(k1, k2) /\ ~ChrKeyLess(k2, k1)

sort_chromosomes(df, start_col) ==
    LET n == Len(df)
        keyed == SubSeq([i \in 1..n |-> [chr_sort |-> chr_key(df[i].chr), row |-> df[i]]], 1, n)
        Less(a, b) ==
            \/ ChrKeyLess(a.chr_sort, b.chr_sort)
            \/ /\ ChrKeyEq(a.chr_sort, b.chr_sort)
               /\ a.row[start_col] < b.row[start_col]
        sorted == SortValues(keyed,
                             [i \in 1..n |-> [j \in 1..n |-> Less(keyed[i], keyed[j])]])
    IN  SubSeq([k \in 1..n |-> sorted[k].row], 1, n)

---------------------------------------------------------------------------
(* parallel_find_triplet *)

NoneResult == [kind |-> "None"]
IndexError == [kind |-> "IndexError"]     \* what .iloc[0] raises on an empty selection
Pending    == [kind |-> "pending"]

\* line 154: DataFrame.to_dict("list"), one list per column
to_dict_list(df) ==
    [chr       |-> [i \in 1..Len(df) |-> df[i].chr],
     start     |-> [i \in 1..Len(df) |-> df[i].start],
     end       |-> [i \in 1..Len(df) |-> df[i].end],
     strand    |-> [i \in 1..Len(df) |-> df[i].strand],
     subfamily |-> [i \in 1..Len(df) |-> df[i].subfamily]]

\* lines 101-102: pd.DataFrame(ltr_elements_dict)
ltr_elements_from_dict(d) ==
    SubSeq([i \in 1..Len(d.chr) |->
               [chr       |-> d.chr[i],
                start     |-> d.start[i],
                end       |-> d.end[i],
                strand    |-> d.strand[i],
                subfamily |-> d.subfamily[i]]], 1, Len(d.chr))

\* line 111: the rows of the task's chromosome and strand
ltrs_chr(ltrs, chrom, strand) ==
    LET InBucket(l) == l.chr = chrom /\ l.strand = strand
    IN  SelectSeq(ltrs, InBucket)

\* line 112 with "<" for "<=" on the tolerance
ltr_up_mask_strict(l, int_start, tol) ==
    Abs(l.end - int_start) < tol /\ l.end <= int_start

\* line 112
ltr_up_mask(l, int_start, tol) ==
    Abs(l.end - int_start) <= tol /\ l.end <= int_start

\* line 113 without the test that the LTR starts at or after the INT end
ltr_down_mask_abs(l, int_end, tol) ==
    Abs(l.start - int_end) <= tol

\* line 113
ltr_down_mask(l, int_end, tol) ==
    Abs(l.start - int_end) <= tol /\ l.start >= int_end

\* line 114
ltr_up(row, ltrs, tol) ==
    LET Up(l) == ltr_up_mask(l, row.start, tol)
    IN  SelectSeq(ltrs_chr(ltrs, row.chr, row.strand), Up)

\* line 115
ltr_down(row, ltrs, tol) ==
    LET Down(l) == ltr_down_mask(l, row.end, tol)
    IN  SelectSeq(ltrs_chr(ltrs, row.chr, row.strand), Down)

\* argsort(ascending=False).iloc[0]: a position holding the maximum
argsort_last(d) ==
    IF Len(d) = 0 THEN {0}
    ELSE {i \in 1..Len(d) : \A j \in 1..Len(d) : d[i] >= d[j]}

\* Series.argsort().iloc[0]: the position argsort puts first.  argsort's default
\* kind is quicksort, which is not stable: any position holding the minimum may
\* come first.  On an empty series .iloc[0] raises (position 0 stands for that).
argsort_first(d) ==
    IF Len(d) = 0 THEN {0}
    ELSE {i \in 1..Len(d) : \A j \in 1..Len(d) : d[i] <= d[j]}

\* lines 117, 118: cands.iloc[cands[col].sub(ref).abs().argsort().iloc[0]]
nearest(cands, col, ref) ==
    LET d == [i \in 1..Len(cands) |-> Abs(cands[i][col] - ref)]
    IN  {IF i = 0 THEN IndexError ELSE [kind |-> "row", row |-> cands[i]] :
            i \in argsort_first(d)}

\* line 116 with "or" for "and"
both_found_either(up_cands, down_cands) == up_cands # <<>> \/ down_cands # <<>>

\* line 116: the test that decides whether a triplet is built
both_found(up_cands, down_cands) == up_cands # <<>> /\ down_cands # <<>>

\* The values the call can return (one element unless candidates tie).
parallel_find_triplet(row, dict, tol) ==
    LET ltrs  == ltr_elements_from_dict(dict)
        ups   == ltr_up(row, ltrs, tol)
        downs == ltr_down(row, ltrs, tol)
    IN  IF both_found(ups, downs)
        THEN {IF up.kind = "IndexError" \/ down.kind = "IndexError" THEN IndexError
              ELSE [kind |-> "triplet",
                    t |-> [chr            |-> row.chr,
                           strand         |-> row.strand,
                           ltr_up_start   |-> up.row.start,
                           ltr_up_end     |-> up.row.end,
                           int_start      |-> row.start,
                           int_end        |-> row.end,
                           ltr_down_start |-> down.row.start,
                           ltr_down_end   |-> down.row.end]] :
                 up \in nearest(ups, "end", row.start),
                 down \in nearest(downs, "start", row.end)}
        ELSE {NoneResult}

---------------------------------------------------------------------------
(* main: collapse, strand relabelling *)

Range(s) == {s[i] : i \in 1..Len(s)}

group_cols(t) ==
    <<t.chr, t.strand, t.ltr_up_start, t.ltr_up_end, t.ltr_down_start, t.ltr_down_end>>

\* The order groupby(sort=True) puts the group keys in.
RECURSIVE GroupKeyLessFrom(_, _, _)
GroupKeyLessFrom(k1, k2, i) ==
    IF i > 6 THEN FALSE
    ELSE LET lt == IF i = 1 THEN StrLess(k1[i], k2[i])
                   ELSE IF i = 2 THEN Ord(k1[i]) < Ord(k2[i])
                   ELSE k1[i] < k2[i]
         IN  lt \/ (k1[i] = k2[i] /\ GroupKeyLessFrom(k1, k2, i + 1))

GroupKeyLess(k1, k2) == GroupKeyLessFrom(k1, k2, 1)

\* agg "min" / "max"
agg_min(S) == CHOOSE x \in S : \A y \in S : x <= y
\* int_end aggregated with "min"
agg_max_as_min(S) == CHOOSE x \in S : \A y \in S : x <= y
agg_max(S) == CHOOSE x \in S : \A y \in S : x >= y

\* lines 178-181: the row of the group with key x
group_row(full, x) ==
    LET members == {t \in Range(full) : group_cols(t) = x}
    IN  [chr            |-> x[1],
         strand         |-> x[2],
         ltr_up_start   |-> x[3],
         ltr_up_end     |-> x[4],
         ltr_down_start |-> x[5],
         ltr_down_end   |-> x[6],
         int_start      |-> agg_min({t.int_start : t \in members}),
         int_end        |-> agg_max({t.int_end : t \in members})]

\* groupby(group_cols, sort=False): the groups in order of first appearance
groupby_agg_unsorted(full) ==
    LET n == Len(full)
        IsFirst(i) == \A j \in 1..(i - 1) : group_cols(full[j]) # group_cols(full[i])
        firsts == SelectSeq([i \in 1..n |-> i], IsFirst)
    IN  SubSeq([k \in 1..Len(firsts) |-> group_row(full, group_cols(full[firsts[k]]))],
               1, Len(firsts))

\* lines 176-181: groupby(group_cols, as_index=False).agg(...)
groupby_agg(full) ==
    LET keys == {group_cols(t) : t \in Range(full)}
        n    == Cardinality(keys)
        sorted_keys == SubSeq([k \in 1..n |-> CHOOSE x \in keys :
                          Cardinality({y \in keys : GroupKeyLess(y, x)}) = k - 1], 1, n)
    IN  SubSeq([k \in 1..n |-> group_row(full, sorted_keys[k])], 1, n)

\* line 182: sort_values(["chr", "ltr_up_start", "int_start"])
ByChrUpStartIntStart(a, b) ==
    \/ StrLess(a.chr, b.chr)
    \/ a.chr = b.chr /\ a.ltr_up_start < b.ltr_up_start
    \/ a.chr = b.chr /\ a.ltr_up_start = b.ltr_up_start /\ a.int_start < b.int_start

\* lines 175-184
collapse(full) ==
    LET grouped == groupby_agg(full)
        n == Len(grouped)
    IN  SortValues(grouped,
                   [i \in 1..n |-> [j \in 1..n |->
                       ByChrUpStartIntStart(grouped[i], grouped[j])]])

\* lines 187-208 without the strand test: 5' is always the upstream LTR
assign_ltr_5_3_unswapped(r) ==
    [chr            |-> r.chr,
     strand         |-> r.strand,
     ltr_up_start   |-> r.ltr_up_start,
     ltr_up_end     |-> r.ltr_up_end,
     ltr_down_start |-> r.ltr_down_start,
     ltr_down_end   |-> r.ltr_down_end,
     int_start      |-> r.int_start,
     int_end        |-> r.int_end,
     ltr_5_start    |-> r.ltr_up_start,
     ltr_5_end      |-> r.ltr_up_end,
     ltr_3_start    |-> r.ltr_down_start,
     ltr_3_end      |-> r.ltr_down_end]

\* lines 187-208: one row of the assign(... np.where(strand == "+", ...))
assign_ltr_5_3(r) ==
    [chr            |-> r.chr,
     strand         |-> r.strand,
     ltr_up_start   |-> r.ltr_up_start,
     ltr_up_end     |-> r.ltr_up_end,
     ltr_down_start |-> r.ltr_down_start,
     ltr_down_end   |-> r.ltr_down_end,
     int_start      |-> r.int_start,
     int_end        |-> r.int_end,
     ltr_5_start    |-> IF r.strand = "+" THEN r.ltr_up_start ELSE r.ltr_down_start,
     ltr_5_end      |-> IF r.strand = "+" THEN r.ltr_up_end ELSE r.ltr_down_end,
     ltr_3_start    |-> IF r.strand = "+" THEN r.ltr_down_start ELSE r.ltr_up_start,
     ltr_3_end      |-> IF r.strand = "+" THEN r.ltr_down_end ELSE r.ltr_up_end]

\* lines 187-211: the table to_csv receives
final_table(collapsed) ==
    sort_chromosomes([k \in 1..Len(collapsed) |-> assign_ltr_5_3(collapsed[k])],
                     "ltr_5_start")

\* lines 143-147 without the subfamily test
select_elements_any(bed, label) ==
    LET n == Len(bed)
    IN  sort_chromosomes(
            SortValues(bed, [i \in 1..n |-> [j \in 1..n |-> ByChrStart(bed[i], bed[j])]]),
            "start")

\* lines 143-147: the rows of one subfamily, sorted
select_elements(bed, label) ==
    LET HasLabel(r) == r.subfamily = label
        selected == SelectSeq(bed, HasLabel)
        n == Len(selected)
    IN  sort_chromosomes(
            SortValues(selected,
                       [i \in 1..n |-> [j \in 1..n |-> ByChrStart(selected[i], selected[j])]]),
            "start")

---------------------------------------------------------------------------
(* Inputs *)

Strands == {"+", "-"}
INT_LABEL == "HERVK-int"
LTR_LABEL == "LTR5_Hs"

\* Annotation rows (start <= end) of one subfamily.
Rows(chroms, max_coord, label) ==
    {r \in [chr : chroms, start : 0..max_coord, end : 0..max_coord,
            strand : Strands, subfamily : {label}] : r.start <= r.end}

SeqsUpTo(S, n) == UNION {[1..k -> S] : k \in 0..n}

PipelineChroms == {Str_chr1}
MatchChroms == {Str_chr1, Str_chr2}
SortChroms == {Str_chr2, Str_chr10, Str_chrX, Str_chrY, Str_chrM, Str_chrUn, Str_chr2_r}

\* Triplets as parallel_find_triplet builds them: LTR [u,u], INT within [u,d], LTR [d,d].
SortTriplets ==
    {t \in [chr : SortChroms, strand : Strands,
            ltr_up_start : 0..MaxSortCoord, ltr_up_end : 0..MaxSortCoord,
            int_start : 0..MaxSortCoord, int_end : 0..MaxSortCoord,
            ltr_down_start : 0..MaxSortCoord, ltr_down_end : 0..MaxSortCoord] :
        /\ t.ltr_up_start = t.ltr_up_end
        /\ t.ltr_down_start = t.ltr_down_end
        /\ t.ltr_up_end <= t.int_start
        /\ t.int_start <= t.int_end
        /\ t.int_end <= t.ltr_down_start}

InitCommon ==
    /\ int_of_interest = INT_LABEL
    /\ ltr_of_interest = LTR_LABEL
    /\ int_elements = <<>>
    /\ ltr_elements = <<>>
    /\ ltr_elements_dict = to_dict_list(<<>>)
    /\ futures = <<>>
    /\ completed = <<>>
    /\ ltr_elements_full_collapsed = <<>>
    /\ output = <<>>
    /\ outcome = "running"

\* A run of main on a table with up to MaxLtr LTR rows and up to MaxInt INT rows,
\* with the largest tolerance (the matcher is run with every tolerance below).
Init ==
    /\ InitCommon
    /\ \E ltrs \in SeqsUpTo(Rows(PipelineChroms, MaxCoord, LTR_LABEL), MaxLtr),
          ints \in SeqsUpTo(Rows(PipelineChroms, MaxCoord, INT_LABEL), MaxInt) :
            te_bed = ltrs \o ints
    /\ tolerance = MaxTol
    /\ triplets = <<>>
    /\ pc = "start"

\* The INT rows of the matcher inputs: one bucket (the code only tests chr and
\* strand for equality), every interval.
MatchIntRows == {r \in Rows({Str_chr1}, MaxCoord, INT_LABEL) : r.strand = "+"}

\* The LTR rows of the matcher inputs: the INT's bucket, the other strand of its
\* chromosome, and its strand on another chromosome.
MatchLtrRows ==
    {r \in Rows(MatchChroms, MaxCoord, LTR_LABEL) : r.chr = Str_chr1 \/ r.strand = "+"}

\* The matcher on one INT row and up to MaxMatchLtr LTR rows.
MatchInit ==
    /\ InitCommon
    /\ \E ltrs \in SeqsUpTo(MatchLtrRows, MaxMatchLtr),
          int \in MatchIntRows :
            te_bed = ltrs \o <<int>>
    /\ tolerance \in 0..MaxTol
    /\ triplets = <<>>
    /\ pc = "start"

\* The collapse and the output sort on a list of up to MaxTriplets triplets.
CollapseInit ==
    /\ InitCommon
    /\ te_bed = <<>>
    /\ tolerance = MaxSortCoord
    /\ triplets \in SeqsUpTo(SortTriplets, MaxTriplets)
    /\ pc = "running"

---------------------------------------------------------------------------
(* main *)

\* lines 143-157: select and sort the two subfamilies, submit one task per INT row
Prepare ==
    /\ pc = "start"
    /\ int_elements' = select_elements(te_bed, int_of_interest)
    /\ ltr_elements' = select_elements(te_bed, ltr_of_interest)
    /\ ltr_elements_dict' = to_dict_list(ltr_elements')
    /\ futures' = [i \in 1..Len(int_elements') |-> Pending]
    /\ pc' = "running"
    /\ UNCHANGED <<te_bed, int_of_interest, ltr_of_interest, tolerance, completed,
                   triplets, ltr_elements_full_collapsed, output, outcome>>

\* line 157: a worker runs the task of INT row i
RunTask(i) ==
    /\ pc = "running"
    /\ i \in 1..Len(futures)
    /\ futures[i] = Pending
    /\ \E result \in parallel_find_triplet(int_elements[i], ltr_elements_dict, tolerance) :
            futures' = [futures EXCEPT ![i] = result]
    /\ UNCHANGED <<te_bed, int_of_interest, ltr_of_interest, tolerance, int_elements,
                   ltr_elements, ltr_elements_dict, completed, triplets, ltr_elements_full_collapsed,
                   output, outcome, pc>>

\* lines 158-161: as_completed yields a finished future; its result is collected
Collect(i) ==
    /\ pc = "running"
    /\ i \in 1..Len(futures)
    /\ futures[i] # Pending
    /\ i \notin Range(completed)
    /\ completed' = Append(completed, i)
    /\ IF futures[i].kind = "IndexError"
       THEN /\ pc' = "done"
            /\ outcome' = "exception"
            /\ UNCHANGED triplets
       ELSE /\ triplets' = IF futures[i].kind = "triplet"
                           THEN Append(triplets, futures[i].t)
                           ELSE triplets
            /\ UNCHANGED <<pc, outcome>>
    /\ UNCHANGED <<te_bed, int_of_interest, ltr_of_interest, tolerance, int_elements,
                   ltr_elements, ltr_elements_dict, futures,
                   ltr_elements_full_collapsed, output>>

\* lines 163-184: nothing found ends the run, otherwise the triplets are collapsed
Collapse ==
    /\ pc = "running"
    /\ Len(completed) = Len(futures)
    /\ IF triplets = <<>>
       THEN /\ outcome' = "no_complete_elements"
            /\ pc' = "done"
            /\ UNCHANGED ltr_elements_full_collapsed
       ELSE /\ ltr_elements_full_collapsed' = collapse(triplets)
            /\ pc' = "collapsed"
            /\ UNCHANGED outcome
    /\ UNCHANGED <<te_bed, int_of_interest, ltr_of_interest, tolerance, int_elements,
                   ltr_elements, ltr_elements_dict, futures, completed, triplets,
                   output>>

\* lines 187-214: relabel by strand, sort, write the CSV
Write ==
    /\ pc = "collapsed"
    /\ output' = final_table(ltr_elements_full_collapsed)
    /\ outcome' = "saved"
    /\ pc' = "done"
    /\ UNCHANGED <<te_bed, int_of_interest, ltr_of_interest, tolerance, int_elements,
                   ltr_elements, ltr_elements_dict, futures, completed, triplets,
                   ltr_elements_full_collapsed>>

Next ==
    \/ Prepare
    \/ \E i \in 1..MaxInt : RunTask(i)
    \/ \E i \in 1..MaxInt : Collect(i)
    \/ Collapse
    \/ Write

Spec == Init /\ [][Next]_vars

MatchNext ==
    \/ Prepare
    \/ RunTask(1)

SpecMatch == MatchInit /\ [][MatchNext]_vars

CollapseNext ==
    \/ Collapse
    \/ Write

SpecCollapse == CollapseInit /\ [][CollapseNext]_vars

---------------------------------------------------------------------------
(* Properties of the matcher (checked under SpecMatch) *)

Done(i) == i \in 1..Len(futures) /\ futures[i] # Pending
Emitted(i) == Done(i) /\ futures[i].kind = "triplet"
SameBucket(l, int) == l.chr = int.chr /\ l.strand = int.strand

\* The candidates as the specification words them.
IsUpstream(l, int) ==
    SameBucket(l, int) /\ l.end <= int.start /\ int.start - l.end <= tolerance
IsDownstream(l, int) ==
    SameBucket(l, int) /\ l.start >= int.end /\ l.start - int.end <= tolerance

Upstream(int) == {l \in Range(ltr_elements) : IsUpstream(l, int)}
Downstream(int) == {l \in Range(ltr_elements) : IsDownstream(l, int)}

\* C1: for every INT row a task has processed and every LTR row, the LTR is among
\* the task's upstream candidates exactly when it is on the INT's chromosome and
\* strand, ends at or before int_start and int_start - end <= tolerance; and among
\* its downstream candidates exactly when it is on the same chromosome and strand,
\* starts at or after int_end and start - int_end <= tolerance.
C1_CandidateSets ==
    \A i \in 1..Len(futures) : Done(i) =>
        \A l \in Range(ltr_elements) :
            /\ l \in Range(ltr_up(int_elements[i], ltr_elements, tolerance))
                   <=> IsUpstream(l, int_elements[i])
            /\ l \in Range(ltr_down(int_elements[i], ltr_elements, tolerance))
                   <=> IsDownstream(l, int_elements[i])

\* A task has run where one LTR at distance exactly tolerance is a candidate, one at
\* distance tolerance + 1 is not, and one at distance <= tolerance on another
\* chromosome or strand is not.
C1_Witness ==
    /\ Done(1)
    /\ \E l1, l2, l3 \in Range(ltr_elements) :
        LET int == int_elements[1]
            ups == Range(ltr_up(int, ltr_elements, tolerance))
        IN  /\ SameBucket(l1, int) /\ int.start - l1.end = tolerance /\ l1 \in ups
            /\ SameBucket(l2, int) /\ int.start - l2.end = tolerance + 1 /\ l2 \notin ups
            /\ ~SameBucket(l3, int) /\ l3.end = int.start /\ l3 \notin ups

\* C2: every triplet emitted for an INT row with start <= end satisfies
\* ltr_up_end <= int_start <= int_end <= ltr_down_start, and both gaps
\* (int_start - ltr_up_end, ltr_down_start - int_end) are at most tolerance.
C2_TripletOrdering ==
    \A i \in 1..Len(futures) :
        (Emitted(i) /\ int_elements[i].start <= int_elements[i].end) =>
            LET t == futures[i].t
            IN  /\ t.ltr_up_end <= t.int_start
                /\ t.int_start <= t.int_end
                /\ t.int_end <= t.ltr_down_start
                /\ t.int_start - t.ltr_up_end <= tolerance
                /\ t.ltr_down_start - t.int_end <= tolerance

\* A triplet was emitted whose upstream gap equals a positive tolerance while other
\* LTR rows of the bucket were rejected.
C2_Witness ==
    /\ Emitted(1)
    /\ tolerance > 0
    /\ futures[1].t.int_start - futures[1].t.ltr_up_end = tolerance
    /\ futures[1].t.ltr_up_start < futures[1].t.ltr_down_start
    /\ Len(ltr_elements) = 3

\* C3: the upstream LTR of an emitted triplet is an upstream candidate whose
\* distance int_start - end is minimal over all upstream candidates, and its
\* downstream LTR is a downstream candidate whose distance start - int_end is
\* minimal over all downstream candidates.
C3_NearestSelected ==
    \A i \in 1..Len(futures) : Emitted(i) =>
        LET t   == futures[i].t
            int == int_elements[i]
        IN  /\ \E u \in Upstream(int) :
                /\ u.start = t.ltr_up_start /\ u.end = t.ltr_up_end
                /\ \A c \in Upstream(int) : int.start - u.end <= int.start - c.end
            /\ \E d \in Downstream(int) :
                /\ d.start = t.ltr_down_start /\ d.end = t.ltr_down_end
                /\ \A c \in Downstream(int) : d.start - int.end <= c.start - int.end

\* A triplet was emitted although a second upstream candidate lay farther away.
C3_Witness ==
    /\ Emitted(1)
    /\ \E c \in Upstream(int_elements[1]) :
            int_elements[1].start - c.end > int_elements[1].start - futures[1].t.ltr_up_end
    /\ futures[1].t.ltr_up_end < futures[1].t.ltr_down_start

\* The table of the run with its rows supplied in the order p.
Resupplied(p) == [k \in 1..Len(te_bed) |-> te_bed[p[k]]]

\* C4: among equidistant candidates the matcher selects the first in ascending
\* interval-start order, so the LTRs of an emitted triplet are a function of the
\* candidate sets: every supply order of the same records yields this one triplet.
C4_TieBreakDeterministic ==
    \A i \in 1..Len(futures) : Emitted(i) =>
        LET t   == futures[i].t
            int == int_elements[i]
            NearUp == {u \in Upstream(int) :
                          \A c \in Upstream(int) : int.start - u.end <= int.start - c.end}
            NearDown == {d \in Downstream(int) :
                          \A c \in Downstream(int) : d.start - int.end <= c.start - int.end}
        IN  /\ \A u \in NearUp : t.ltr_up_start <= u.start
            /\ \A d \in NearDown : t.ltr_down_start <= d.start
            /\ \A p \in Permutations(1..Len(te_bed)) :
                  parallel_find_triplet(
                      int, to_dict_list(select_elements(Resupplied(p), ltr_of_interest)),
                      tolerance)
                  = {futures[i]}

---------------------------------------------------------------------------
(* Properties of the collapse, the relabelling and the output sort
   (checked under SpecCollapse) *)

Collapsed == pc = "collapsed" \/ (pc = "done" /\ outcome = "saved")

\* The grouping key of a triplet or of a collapsed record.
KeyOf(x) ==
    [chr |-> x.chr, strand |-> x.strand,
     ltr_up_start |-> x.ltr_up_start, ltr_up_end |-> x.ltr_up_end,
     ltr_down_start |-> x.ltr_down_start, ltr_down_end |-> x.ltr_down_end]

\* C5: the collapse of a non-empty triplet list has exactly one record per distinct
\* key (chr, strand, ltr_up_start, ltr_up_end, ltr_down_start, ltr_down_end) of the
\* list, and the record's int_start is the minimum and its int_end the maximum of
\* the int_start / int_end values of the triplets that share its key.
C5_CollapseMinMax ==
    (Collapsed /\ triplets # <<>>) =>
        /\ {KeyOf(r) : r \in Range(ltr_elements_full_collapsed)}
               = {KeyOf(t) : t \in Range(triplets)}
        /\ \A a, b \in 1..Len(ltr_elements_full_collapsed) :
               KeyOf(ltr_elements_full_collapsed[a]) = KeyOf(ltr_elements_full_collapsed[b])
                   => a = b
        /\ \A r \in Range(ltr_elements_full_collapsed) :
               LET group == {t \in Range(triplets) : KeyOf(t) = KeyOf(r)}
               IN  /\ \A t \in group : r.int_start <= t.int_start /\ r.int_end >= t.int_end
                   /\ \E t \in group : r.int_start = t.int_start
                   /\ \E t \in group : r.int_end = t.int_end

\* Two triplets with equal LTR boundaries and different INT spans were collapsed
\* into one record that spans both.
C5_Witness ==
    /\ Collapsed
    /\ Len(triplets) = 2
    /\ KeyOf(triplets[1]) = KeyOf(triplets[2])
    /\ triplets[1].int_end < triplets[2].int_end
    /\ Len(ltr_elements_full_collapsed) = 1
    /\ ltr_elements_full_collapsed[1].int_start = triplets[1].int_start
    /\ ltr_elements_full_collapsed[1].int_end = triplets[2].int_end

\* The collapsed columns of an output row.
CollapsedColumns(o) ==
    [chr |-> o.chr, strand |-> o.strand,
     ltr_up_start |-> o.ltr_up_start, ltr_up_end |-> o.ltr_up_end,
     ltr_down_start |-> o.ltr_down_start, ltr_down_end |-> o.ltr_down_end,
     int_start |-> o.int_start, int_end |-> o.int_end]

\* C6: in every output row, on strand "+" the 5' LTR is the upstream LTR and the 3'
\* LTR the downstream LTR, on strand "-" the other way round; the rows carry the
\* collapsed records unchanged (ltr_up_* / ltr_down_* included), none dropped and
\* none added.
C6_StrandRelabel ==
    outcome = "saved" =>
        /\ \A o \in Range(output) :
            /\ o.strand = "+" =>
                /\ o.ltr_5_start = o.ltr_up_start /\ o.ltr_5_end = o.ltr_up_end
                /\ o.ltr_3_start = o.ltr_down_start /\ o.ltr_3_end = o.ltr_down_end
            /\ o.strand = "-" =>
                /\ o.ltr_5_start = o.ltr_down_start /\ o.ltr_5_end = o.ltr_down_end
                /\ o.ltr_3_start = o.ltr_up_start /\ o.ltr_3_end = o.ltr_up_end
        /\ Len(output) = Len(ltr_elements_full_collapsed)
        /\ {CollapsedColumns(o) : o \in Range(output)} = Range(ltr_elements_full_collapsed)

\* A "+" and a "-" record with identical coordinates and distinct LTRs were written.
C6_Witness ==
    /\ outcome = "saved"
    /\ \E a, b \in Range(output) :
        /\ a.strand = "+" /\ b.strand = "-"
        /\ a.chr = b.chr
        /\ a.ltr_up_start = b.ltr_up_start /\ a.ltr_down_start = b.ltr_down_start
        /\ a.ltr_up_start < a.ltr_down_start
        /\ a.ltr_5_start = b.ltr_3_start /\ a.ltr_3_start = b.ltr_5_start

\* The chromosome order as the specification words it.
IsAutosome(c) ==
    /\ Len(c) >= 4
    /\ c[1] = "c" /\ c[2] = "h" /\ c[3] = "r"
    /\ \A j \in 4..Len(c) : c[j] \in Digits
BioClass(c) ==
    IF IsAutosome(c) THEN 0
    ELSE IF c = Str_chrX THEN 1
    ELSE IF c = Str_chrY THEN 2
    ELSE IF c = Str_chrM \/ c = Str_chrMT THEN 3
    ELSE 4
BioPrecedes(a, b) ==
    \/ BioClass(a) < BioClass(b)
    \/ /\ BioClass(a) = 0 /\ BioClass(b) = 0
       /\ ParseInt(SubSeq(a, 4, Len(a))) < ParseInt(SubSeq(b, 4, Len(b)))
    \/ BioClass(a) = 4 /\ BioClass(b) = 4 /\ StrLess(a, b)

\* C10: the output is sorted by chromosome in biological order (autosomes by
\* number, then X, Y, mitochondrial, then the other names lexically), the records of
\* one chromosome name are contiguous, and within a name ltr_5_start does not
\* decrease.
C10_BiologicalOrder ==
    outcome = "saved" =>
        \A i, j \in 1..Len(output) : i < j =>
            /\ ~BioPrecedes(output[j].chr, output[i].chr)
            /\ output[i].chr = output[j].chr =>
                /\ output[i].ltr_5_start <= output[j].ltr_5_start
                /\ \A k \in i..j : output[k].chr = output[i].chr

---------------------------------------------------------------------------
(* Properties of a run of main (checked under Spec) *)

\* The results in submission order: what a sequential loop over int_rows collects.
SequentialTriplets ==
    LET IsTriplet(f) == f.kind = "triplet"
        found == SelectSeq(futures, IsTriplet)
    IN  [k \in 1..Len(found) |-> found[k].t]

Occurrences(seq, x) == Cardinality({k \in 1..Len(seq) : seq[k] = x})

\* C7: whatever the order in which the tasks complete, every future is yielded
\* exactly once and its triplet collected once, no task changes the shared LTR
\* table, and what is written (or the no-elements ending) is what collecting the
\* results in submission order gives.
C7_CompletionOrderIrrelevant ==
    /\ pc # "start" => ltr_elements_dict = to_dict_list(ltr_elements)
    /\ \A a, b \in 1..Len(completed) : completed[a] = completed[b] => a = b
    /\ Len(triplets) = Cardinality({i \in Range(completed) : futures[i].kind = "triplet"})
    /\ pc \in {"collapsed", "done"} =>
        /\ Range(completed) = 1..Len(futures)
        /\ \A t \in Range(triplets) \cup Range(SequentialTriplets) :
               Occurrences(triplets, t) = Occurrences(SequentialTriplets, t)
    /\ pc = "done" =>
        /\ outcome \in {"saved", "no_complete_elements"}
        /\ outcome = "saved" =>
               /\ SequentialTriplets # <<>>
               /\ output = final_table(collapse(SequentialTriplets))
        /\ outcome = "no_complete_elements" => SequentialTriplets = <<>>

\* Two tasks found different triplets, the second completed first, and the run
\* wrote two records.
C7_Witness ==
    /\ outcome = "saved"
    /\ completed = <<2, 1>>
    /\ Len(triplets) = 2
    /\ triplets # SequentialTriplets
    /\ Len(output) = 2

NoRowsOf(label) == \A k \in 1..Len(te_bed) : te_bed[k].subfamily # label
ZeroLabelRun == NoRowsOf(int_of_interest) \/ NoRowsOf(ltr_of_interest)

\* C8 as stated: a run whose INT or LTR label matches no record does not end the
\* way a run with records of both labels and no triplet ends.
C8_Distinguishable ==
    (pc = "done" /\ ZeroLabelRun) => outcome # "no_complete_elements"

\* C8 amended: a run whose INT or LTR label matches no record ends like a run that
\* matched no triplet: the no-complete-elements message, nothing written.
C8_SameAsNoTriplets ==
    (pc = "done" /\ ZeroLabelRun) =>
        outcome = "no_complete_elements" /\ output = <<>>

\* A run with INT rows, whose tasks all ran, but no row of the LTR label ended.
C8_Witness ==
    /\ pc = "done"
    /\ NoRowsOf(ltr_of_interest)
    /\ Len(futures) = 2
    /\ outcome = "no_complete_elements"

\* C9: a task whose upstream or downstream candidate set is empty returns None
\* (no triplet, no exception), and a run in which no task finds a triplet ends in
\* the no-complete-elements outcome with nothing written.
C9_NoMatchIsNotAnError ==
    /\ \A i \in 1..Len(futures) :
          (Done(i) /\ (Upstream(int_elements[i]) = {} \/ Downstream(int_elements[i]) = {}))
              => futures[i] = NoneResult
    /\ (pc = "done" /\ \A i \in 1..Len(futures) : futures[i].kind # "triplet")
          => outcome = "no_complete_elements" /\ output = <<>>

\* A run ended without a triplet although both labels had rows: one INT row had no
\* LTR in its bucket, another had an upstream candidate and no downstream one.
C9_Witness ==
    /\ pc = "done"
    /\ outcome = "no_complete_elements"
    /\ ltr_elements # <<>>
    /\ \E i, j \in 1..Len(futures) :
        /\ \A l \in Range(ltr_elements) : ~SameBucket(l, int_elements[i])
        /\ Upstream(int_elements[j]) # {}
        /\ Downstream(int_elements[j]) = {}

====
